---- MODULE Spec2Model ----
(***************************************************************************)
(* Model of the self-updating application: SelfUpdater (updater.py) driven *)
(* by its background thread, with the three directories it works on (the   *)
(* installation directory, the backup directory, the temp directory) and   *)
(* the update server as the environment.                                   *)
(*                                                                         *)
(* A file tree is a function from Paths to a content, 0 meaning "no file". *)
(* An archive (an update package, a backup) is such a function too: 0      *)
(* means "no entry".  A directory of archives is a function whose DOMAIN   *)
(* is the set of file names that exist.                                    *)
(***************************************************************************)
EXTENDS Integers, FiniteSets, Sequences, TLC

\* ---------------------------------------------------------------- bounds
MaxStarts == 2      \* calls of start_periodic_checking in SpecStarts
NPaths    == 2      \* relative paths a tree or an archive can hold
MaxPart   == 1      \* largest major, minor, patch of the versions compared
MaxArchives == 6    \* archives of a backup directory handed to the eviction
MaxCalls  == 2      \* calls of _apply_update and _rollback made in a row

\* ------------------------------------------------------ program constants
MAX_BACKUP_COUNT == 5
VERIFY_CHECKSUMS == TRUE
VERSION == <<1, 0, 16>>

Paths    == 1..NPaths
Threads  == 1..MaxStarts
\* Contents: 0 is no file, 1 a file as the running version installed it, 2 a
\* file as an update package brings it.
NoTree   == [p \in Paths |-> 0]

\* --------------------------------------------------------- the environment
\* Installation trees the running version can start from: its own files.
InitTrees == [Paths -> {0, 1}] \ {NoTree}
\* The archives the download endpoint can deliver (update_server.py sends the
\* file the manifest names, whatever it holds).
Packages == {a \in [Paths -> {0, 2}] : a # NoTree}
\* The packages create_update.py releases, whose checksum a manifest carries:
\* each holds the program's own file (path 1).
Released == {a \in Packages : a[1] = 2}
\* A download cut short: bytes that are no archive.
Truncated == NoTree
\* The `version` of a manifest: absent, unparsable, or major.minor.patch.
NoVersion  == << >>
BadVersion == <<0>>
RemoteVersions == {<<0, 1, 17>>, <<1, 0, 16>>, <<1, 1, 0>>}
\* The versions that ran before VERSION and left a backup, newest first.
OldVersion(i) == <<1, 0, 16 - i>>

RECURSIVE Encode(_, _)
Encode(bytes, n) ==
    IF n = 0 THEN 0 ELSE bytes[n] + 3 * Encode(bytes, n - 1)
\* hashlib.sha256(...).hexdigest(): lower-case hex, one digest per byte string
\* (collision-free on the model's byte strings). <<digest, 0>> is lower case,
\* <<digest, 1>> the same hex digits in upper case.
Sha256Hex(bytes) == <<Encode(bytes, NPaths), 0>>
Lower(cs) == <<cs[1], 0>>
NoChecksum == << >>
Checksums == {NoChecksum} \cup {<<Encode(a, NPaths), c>> : a \in Released, c \in {0, 1}}
Manifests == [version : {NoVersion, BadVersion} \cup RemoteVersions,
              checksum : Checksums]
NoInfo == [version |-> NoVersion, checksum |-> NoChecksum]

\* restart_callback: None, os.execl (program.py: never returns), a hook that
\* returns, a hook that raises.
Callbacks == {"none", "exec", "returns", "raises"}

\* ------------------------------------------------------------ the state
VARIABLES
    installDir,        \* the application directory: a tree
    backupDir,         \* Config.BACKUP_DIR: version |-> [tree, mtime]; an
                       \* mtime is the archive's rank in time in the directory
    tempDir,           \* Config.TEMP_DIR: version |-> downloaded bytes
    restart_callback,  \* self._restart_callback
    pc,                \* each background thread's position
    update_info,       \* each thread's manifest (_check_and_update's local)
    update_file,       \* each thread's downloaded file (its name in tempDir)
    cyc,               \* history of each thread's current cycle
    applied,           \* some cycle has ended Applied
    afterApplied,      \* a cycle has started after a cycle had ended Applied
    appliedVersions,   \* the versions whose package a cycle of this
                       \* instance has applied, ending Applied
    probe              \* the call under test, where one operation of the
                       \* updater is exercised on its own: its arguments,
                       \* then its results

\* The updater and its directories.
program == <<installDir, backupDir, tempDir, restart_callback, pc,
             update_info, update_file, cyc, applied, afterApplied,
             appliedVersions>>

vars == <<program, probe>>

NoProbe == [op |-> "none"]

NoFile == << >>

\* The record a cycle's history starts from: the installation tree and the
\* backup directory the cycle found, the outcome of the cycle before it (kept
\* until the cycle has fetched its manifest), the version
\* of the manifest and whether a cycle of this instance had already applied
\* that version, whether it started an update and the checksum of the
\* manifest it started it with, the temp file it wrote and the digest of the
\* bytes that arrived, the stage that failed and whether a backup of the
\* running version existed then, what each stage did, and the outcome.
NewCycle(tree, backups) ==
    [pre |-> tree, preBackups |-> backups,
     after |-> "none", remote |-> NoVersion, again |-> FALSE,
     started |-> FALSE, expected |-> NoChecksum,
     name |-> NoFile, got |-> NoChecksum,
     failed |-> "none", reason |-> "none", hadBackup |-> FALSE,
     created |-> FALSE, downloaded |-> FALSE,
     verified |-> FALSE, backedUp |-> FALSE, applyCalled |-> FALSE,
     rolledBack |-> "none", hook |-> FALSE, outcome |-> "none"]

NoCycle == NewCycle(NoTree, << >>)

\* ------------------------------------------------------ pure operations
\* (mutant) the patch number is not compared
semver_compare_NoPatch(a, b) ==
    IF a[1] # b[1] THEN (IF a[1] > b[1] THEN 1 ELSE -1)
    ELSE IF a[2] # b[2] THEN (IF a[2] > b[2] THEN 1 ELSE -1)
    ELSE 0

\* semver.compare on major.minor.patch
semver_compare(a, b) ==
    IF a[1] # b[1] THEN (IF a[1] > b[1] THEN 1 ELSE -1)
    ELSE IF a[2] # b[2] THEN (IF a[2] > b[2] THEN 1 ELSE -1)
    ELSE IF a[3] # b[3] THEN (IF a[3] > b[3] THEN 1 ELSE -1)
    ELSE 0

\* _verify_checksum: actual_checksum.lower() == expected_checksum.lower()
verify_checksum(bytes, expected) == Lower(Sha256Hex(bytes)) = Lower(expected)

\* The entries of an archive, the files of a tree.
Entries(a) == {p \in Paths : a[p] # 0}

\* What a write of the archive's entries, or an extraction of them, has done
\* when it stops: entries go one after the other, in the order of their paths.
Prefixes(a) == {{p \in Entries(a) : p <= n} : n \in 0..NPaths}

\* (mutant) the directory is emptied before the entries are extracted
extractall_Sync(tree, archive, written) ==
    [p \in Paths |-> IF p \in written THEN archive[p] ELSE 0]

\* ZipFile.extractall(app_dir), the entries in `written` extracted: each
\* overwrites the file at its path, every other file is left as it is.
extractall(tree, archive, written) ==
    [p \in Paths |-> IF p \in written THEN archive[p] ELSE tree[p]]

\* Config.get_backup_path(): the backup is named after the running version.
\* A name <<1, 0, 16>> stands for nametag_v1.0.16 and, as a file of the backup
\* directory, for nametag_v1.0.16.zip: shutil.make_archive(base, 'zip', ...)
\* writes the file base + ".zip".
get_backup_path == VERSION

\* backup_path_base.with_suffix('.zip') in _rollback: pathlib replaces what
\* follows the last dot of the name, so nametag_v1.0.16 becomes
\* nametag_v1.0.zip, the name without its last component.
with_suffix(base) == SubSeq(base, 1, Len(base) - 1)

\* The temp file of a download: update_<version>.zip
TempName(info) == info.version

Remove(dir, names) == [n \in (DOMAIN dir) \ names |-> dir[n]]
Put(dir, name, file) ==
    [n \in (DOMAIN dir) \cup {name} |-> IF n = name THEN file ELSE dir[n]]

\* The archives of a backup directory with their mtimes as ranks 1..n again,
\* in the same order.
Ranked(dir) ==
    [n \in DOMAIN dir |->
        [dir[n] EXCEPT !.mtime =
            Cardinality({m \in DOMAIN dir : dir[m].mtime <= dir[n].mtime})]]

\* An archive written now under `name`: it replaces the file of that name and
\* its mtime is later than every other's.
WriteArchive(dir, name, tree) ==
    LET rest == Ranked(Remove(dir, {name}))
    IN  Put(rest, name, [tree |-> tree, mtime |-> Cardinality(DOMAIN rest) + 1])

\* (mutant) backups.sort(key=st_mtime): oldest first
SortByMtimeAsc(dir, names) ==
    [i \in 1..Cardinality(names) |->
        CHOOSE n \in names :
            Cardinality({m \in names : dir[m].mtime <= dir[n].mtime}) = i]

\* backups.sort(key=st_mtime, reverse=True): newest first. The archive at
\* position i is the one with i archives at least as new as itself (the
\* mtimes of a directory are distinct).
SortByMtimeDesc(dir, names) ==
    [i \in 1..Cardinality(names) |->
        CHOOSE n \in names :
            Cardinality({m \in names : dir[m].mtime >= dir[n].mtime}) = i]

\* _cleanup_old_backups with the retention count `keep`: the archives sorted
\* newest first, backups[keep:] deleted.
EvictBeyond(dir, keep) ==
    LET backups == SortByMtimeDesc(dir, DOMAIN dir)
        old == {backups[i] : i \in (keep + 1)..Len(backups)}
    IN  Ranked(Remove(dir, old))

\* _cleanup_old_backups: delete backups[MAX_BACKUP_COUNT:]
cleanup_old_backups(dir) == EvictBeyond(dir, MAX_BACKUP_COUNT)

\* (mutant) the temp directory is left as it is
cleanup_temp_files_Skipped(dir) == dir

\* _cleanup_temp_files: every item of the temp directory is deleted.
cleanup_temp_files(dir) == Remove(dir, DOMAIN dir)

\* ------------------------------------------------------------- Init
\* The backups the earlier versions left: each version that updated itself
\* backed itself up first and evicted down to MAX_BACKUP_COUNT, so the newest
\* k <= MAX_BACKUP_COUNT of them are there, in the order they were made.
OldBackups(k) ==
    [v \in {OldVersion(i) : i \in 1..k} |->
        [tree |-> [p \in Paths |-> IF p = 1 THEN 1 ELSE 0],
         mtime |-> k + 1 - (VERSION[3] - v[3])]]

InitProgram ==
    /\ installDir \in InitTrees
    /\ \E k \in {0, MAX_BACKUP_COUNT - 1, MAX_BACKUP_COUNT} :
         backupDir = OldBackups(k)
    /\ tempDir = << >>
    /\ restart_callback = "none"
    /\ pc = [t \in Threads |-> "unstarted"]
    /\ update_info = [t \in Threads |-> NoInfo]
    /\ update_file = [t \in Threads |-> NoFile]
    /\ cyc = [t \in Threads |-> NoCycle]
    /\ applied = FALSE
    /\ afterApplied = FALSE
    /\ appliedVersions = {}

\* The program after SelfUpdater(config): no operation is under test.
Init == InitProgram /\ probe = NoProbe

\* The process image has been replaced (os.execl): nothing of it runs on.
Exited == \E t \in Threads : pc[t] = "exited"

\* Thread t goes on to `next` with its locals; at "sleep" _check_and_update
\* has returned to the loop of _periodic_update_check and its locals are gone.
Goto(t, next, info, file) ==
    /\ pc' = [pc EXCEPT ![t] = next]
    /\ update_info' = [update_info EXCEPT ![t] = IF next = "sleep" THEN NoInfo ELSE info]
    /\ update_file' = [update_file EXCEPT ![t] = IF next = "sleep" THEN NoFile ELSE file]

Stay(t, next) == Goto(t, next, update_info[t], update_file[t])

\* The history of a cycle whose stage `stage` failed for `reason`, over the
\* backup directory `dir`.
Failure(h, stage, reason, dir) ==
    [h EXCEPT !.failed = stage, !.reason = reason,
              !.hadBackup = get_backup_path \in DOMAIN dir]

\* ... and which reports Failed without more ado.
Failed(h, stage, reason, dir) ==
    [Failure(h, stage, reason, dir) EXCEPT !.outcome = "Failed"]

\* ----------------------------------------------------------- actions
\* start_periodic_checking(restart_callback): a new daemon thread each call.
start_periodic_checking(t) ==
    /\ pc[t] = "unstarted"
    /\ \A u \in Threads : u < t => pc[u] # "unstarted"
    /\ ~Exited
    /\ \E cb \in Callbacks : restart_callback' = cb
    /\ pc' = [pc EXCEPT ![t] = "check"]
    /\ UNCHANGED <<probe, installDir, backupDir, tempDir, update_info,
                   update_file, cyc, applied, afterApplied,
                   appliedVersions>>

\* (mutant) `comparison >= 0`
UpdateAvailable_OrEqual(remote) == semver_compare(remote, VERSION) >= 0

\* `comparison > 0` in _check_and_update: an update is started when
\* semver.compare(remote_version, current_version) is positive.
UpdateAvailable(remote) == semver_compare(remote, VERSION) > 0

\* (mutant) the exception leaves _check_and_update and ends the thread
OnException_Propagates == "dead"

\* `except Exception as e:` of _check_and_update: the error is logged and
\* _check_and_update returns to the loop.
OnException == "sleep"

\* (mutant) the manifest with no version is not turned away
AfterManifestError_GoesOn == "download"

\* `if not update_info: return` and `if not remote_version: ... return`
AfterManifestError == "sleep"

\* _check_and_update, to the call of _perform_update_with_info.
\* _get_update_info returns the manifest or, on any error, None; a manifest
\* with no version ends the cycle, one whose version semver cannot parse
\* raises, which the handler of _check_and_update logs.
CheckForUpdate(t) ==
    /\ pc[t] = "check"
    /\ afterApplied' = (afterApplied \/ applied)
    /\ \E ok \in BOOLEAN :
         IF ~ok
         THEN /\ Goto(t, AfterManifestError, NoInfo, NoFile)
              /\ cyc' = [cyc EXCEPT ![t] =
                           Failed(NewCycle(installDir, backupDir),
                                  "Checking", "NetworkError", backupDir)]
         ELSE \E info \in Manifests :
         LET remote == info.version
             h == [NewCycle(installDir, backupDir)
                     EXCEPT !.remote = remote,
                            !.again = remote \in appliedVersions]
         IN
           IF remote = NoVersion
           THEN /\ Goto(t, AfterManifestError, info, NoFile)
                /\ cyc' = [cyc EXCEPT ![t] =
                             Failed(h, "Checking", "ManifestError", backupDir)]
           ELSE IF remote = BadVersion
           THEN /\ Stay(t, OnException)
                /\ cyc' = [cyc EXCEPT ![t] =
                             Failed(h, "Checking", "VersionParseError", backupDir)]
           ELSE IF UpdateAvailable(remote)
           THEN /\ Goto(t, "download", info, NoFile)
                /\ cyc' = [cyc EXCEPT ![t] =
                             [h EXCEPT !.started = TRUE,
                                       !.expected = info.checksum]]
           ELSE /\ Stay(t, "sleep")
                /\ cyc' = [cyc EXCEPT ![t] =
                             [h EXCEPT !.outcome = "NoUpdateAvailable"]]
    /\ UNCHANGED <<probe, installDir, backupDir, tempDir, restart_callback, applied,
                   appliedVersions>>

\* `if expected_checksum and self.config.VERIFY_CHECKSUMS`
ChecksumChecked(expected) == expected # NoChecksum /\ VERIFY_CHECKSUMS

\* (mutant) the mismatching download is left where it is
DiscardDownload_Kept(dir, name) == dir

\* What a failed verification does to the temp directory: temp_file.unlink()
DiscardDownload(dir, name) == Remove(dir, {name})

\* _download_update. The request fails before the file is opened (no file),
\* or the stream breaks (the file is left with what had arrived), or all the
\* bytes arrive; then the checksum, when there is one to check: a mismatch
\* unlinks the file and returns None, otherwise the file is returned.
download_update(t) ==
    /\ pc[t] = "download"
    /\ LET name == TempName(update_info[t])
           expected == update_info[t].checksum
       IN
       \E connected \in BOOLEAN :
         IF ~connected
         THEN /\ tempDir' = tempDir
              /\ Stay(t, "sleep")
              /\ cyc' = [cyc EXCEPT ![t] =
                           Failed(@, "Downloading", "DownloadError", backupDir)]
         ELSE \E bytes \in Packages \cup {Truncated} :
         IF bytes = Truncated
         THEN /\ tempDir' = Put(tempDir, name, bytes)
              /\ Stay(t, "sleep")
              /\ cyc' = [cyc EXCEPT ![t] =
                           [Failed(@, "Downloading", "DownloadError", backupDir)
                              EXCEPT !.created = TRUE, !.name = name]]
         ELSE IF ChecksumChecked(expected) /\ ~verify_checksum(bytes, expected)
         THEN /\ tempDir' = DiscardDownload(Put(tempDir, name, bytes), name)
              /\ Stay(t, "sleep")
              /\ cyc' = [cyc EXCEPT ![t] =
                           [Failed(@, "Verifying", "ChecksumError", backupDir)
                              EXCEPT !.created = TRUE, !.downloaded = TRUE,
                                     !.name = name, !.got = Sha256Hex(bytes)]]
         ELSE /\ tempDir' = Put(tempDir, name, bytes)
              /\ Goto(t, "backup", update_info[t], name)
              /\ cyc' = [cyc EXCEPT ![t].created = TRUE, ![t].downloaded = TRUE,
                            ![t].name = name, ![t].got = Sha256Hex(bytes),
                            ![t].verified = ChecksumChecked(expected)]
    /\ UNCHANGED <<probe, installDir, backupDir, restart_callback, applied,
                   afterApplied,
                   appliedVersions>>

\* (mutant) the update goes on whatever _create_backup returned
AfterBackup_Ignored(ok) == "apply"

\* _perform_update_with_info, after _create_backup returned: False ends the
\* update there, True goes on to _apply_update.
AfterBackup(ok) == IF ok THEN "apply" ELSE "sleep"

\* _create_backup: shutil.make_archive(backup_path, 'zip', app_dir). It
\* succeeds and the archive holds the whole tree, or it fails: before writing
\* (the directory is as it was) or while writing (an archive with the files
\* written so far is left under the backup's name).
create_backup(t) ==
    /\ pc[t] = "backup"
    /\ \E res \in {"ok", "failed", "partial"}, written \in Prefixes(installDir) :
         LET part == [p \in Paths |-> IF p \in written THEN installDir[p] ELSE 0]
         IN
           /\ res = "partial" => written # Entries(installDir)
           /\ res # "partial" => written = {}
           /\ backupDir' = IF res = "ok"
                           THEN WriteArchive(backupDir, get_backup_path, installDir)
                           ELSE IF res = "partial"
                           THEN WriteArchive(backupDir, get_backup_path, part)
                           ELSE backupDir
           /\ Stay(t, AfterBackup(res = "ok"))
           /\ cyc' = IF res = "ok"
                     THEN [cyc EXCEPT ![t].backedUp = TRUE]
                     ELSE [cyc EXCEPT ![t] =
                             Failed(@, "BackingUp", "BackupError", backupDir)]
    /\ UNCHANGED <<probe, installDir, tempDir, restart_callback, applied,
                   afterApplied,
                   appliedVersions>>

\* (mutant) a failed apply returns False with no rollback
AfterApply_NoRollback(ok) == IF ok THEN "cleanup" ELSE "sleep"

\* _perform_update_with_info, after _apply_update returned: True goes on to
\* the clean-up, False to self._rollback().
AfterApply(ok) == IF ok THEN "cleanup" ELSE "rollback"

\* _apply_update -> _extract_zip_to_app_dir(update_file): every entry is
\* extracted, or the extraction fails with some of them extracted (none when
\* the file is missing or is no archive).
apply_update(t) ==
    /\ pc[t] = "apply"
    /\ LET there == update_file[t] \in DOMAIN tempDir
           archive == IF there THEN tempDir[update_file[t]] ELSE Truncated
       IN \E written \in Prefixes(archive), ok \in BOOLEAN :
            /\ ok => there /\ archive # Truncated /\ written = Entries(archive)
            /\ ~ok => written # Entries(archive) \/ archive = Truncated
            /\ installDir' = extractall(installDir, archive, written)
            /\ Stay(t, AfterApply(ok))
            /\ cyc' = [cyc EXCEPT ![t] =
                         IF ok THEN [@ EXCEPT !.applyCalled = TRUE]
                         ELSE [Failure(@, "Applying", "ExtractionError", backupDir)
                                 EXCEPT !.applyCalled = TRUE]]
    /\ UNCHANGED <<probe, backupDir, tempDir, restart_callback, applied,
                   afterApplied,
                   appliedVersions>>

\* _rollback, then `return False`: no file at backup_zip_path is "No backup
\* found for rollback"; otherwise _extract_zip_to_app_dir(backup_zip_path),
\* which may fail part way.
rollback(t) ==
    /\ pc[t] = "rollback"
    /\ IF with_suffix(get_backup_path) \notin DOMAIN backupDir
       THEN /\ installDir' = installDir
            /\ cyc' = [cyc EXCEPT ![t].rolledBack = "NoBackup",
                          ![t].outcome = "Failed"]
       ELSE LET archive == backupDir[with_suffix(get_backup_path)].tree IN
            \E written \in Prefixes(archive) :
              /\ installDir' = extractall(installDir, archive, written)
              /\ cyc' = [cyc EXCEPT
                           ![t].rolledBack = IF written = Entries(archive)
                                           THEN "RolledBack"
                                           ELSE "RollbackFailed",
                           ![t].outcome = "Failed"]
    /\ Stay(t, "sleep")
    /\ UNCHANGED <<probe, backupDir, tempDir, restart_callback, applied,
                   afterApplied,
                   appliedVersions>>

\* _perform_update_with_info, "Clean up": _cleanup_temp_files(),
\* _cleanup_old_backups(), return True.
CleanUp(t) ==
    /\ pc[t] = "cleanup"
    /\ tempDir' = cleanup_temp_files(tempDir)
    /\ backupDir' = cleanup_old_backups(backupDir)
    /\ Stay(t, "restart")
    /\ cyc' = [cyc EXCEPT ![t].outcome = "Applied"]
    /\ applied' = TRUE
    /\ appliedVersions' = appliedVersions \cup {cyc[t].remote}
    /\ UNCHANGED <<probe, installDir, restart_callback, afterApplied>>

\* _check_and_update, after the update returned True:
\* `if self._restart_callback: self._restart_callback()`. os.execl replaces
\* the process; a hook that returns or raises (the exception is logged), or no
\* hook, leaves _check_and_update returning to the loop.
HookReturns(cb) == cb # "exec"

RequestRestart(t) ==
    /\ pc[t] = "restart"
    /\ cyc' = [cyc EXCEPT ![t].hook = restart_callback # "none"]
    /\ IF HookReturns(restart_callback)
       THEN Stay(t, IF restart_callback = "raises" THEN OnException ELSE "sleep")
       ELSE /\ pc' = [u \in Threads |-> "exited"]
            /\ UNCHANGED <<update_info, update_file>>
    /\ UNCHANGED <<probe, installDir, backupDir, tempDir, restart_callback,
                   applied, afterApplied,
                   appliedVersions>>

\* _periodic_update_check: time.sleep(10), then the loop calls
\* _check_and_update again.
periodic_update_check(t) ==
    /\ pc[t] = "sleep"
    /\ pc' = [pc EXCEPT ![t] = "check"]
    /\ cyc' = [cyc EXCEPT ![t] = [NoCycle EXCEPT !.after = cyc[t].outcome]]
    /\ UNCHANGED <<probe, installDir, backupDir, tempDir, restart_callback,
                   update_info, update_file, applied, afterApplied,
                   appliedVersions>>

\* One run of _check_and_update.
check_and_update(t) ==
    \/ CheckForUpdate(t)
    \/ download_update(t)
    \/ create_backup(t)
    \/ apply_update(t)
    \/ rollback(t)
    \/ CleanUp(t)
    \/ RequestRestart(t)

\* The program as program.py runs it: start_periodic_checking is called once.
Next == start_periodic_checking(1) \/ check_and_update(1) \/ periodic_update_check(1)

Spec == Init /\ [][Next]_vars

\* The background thread runs: each call it makes returns (the requests have
\* a timeout, the file operations end) and time.sleep(10) ends.
Fairness == WF_vars(check_and_update(1)) /\ WF_vars(periodic_update_check(1))

\* ... from a full installation and an empty backup directory, as on the
\* first run of the application.
InitFair ==
    /\ Init
    /\ installDir = [p \in Paths |-> 1]
    /\ backupDir = OldBackups(0)

SpecFair == InitFair /\ [][Next]_vars /\ Fairness

\* The SelfUpdater under any sequence of calls of start_periodic_checking, each
\* thread followed through its first cycle.
NextStarts == \E t \in Threads : start_periodic_checking(t) \/ check_and_update(t)

InitStarts == Init /\ backupDir = OldBackups(0) /\ installDir = [p \in Paths |-> 1]

SpecStarts == InitStarts /\ [][NextStarts]_vars

\* ------------------------------------------- operations on their own
\* The updater at rest, while one of its operations is exercised.
Idle ==
    /\ InitProgram
    /\ installDir = [p \in Paths |-> 1]
    /\ backupDir = OldBackups(0)

\* semver.compare and the test `comparison > 0`, on the versions a manifest
\* can carry and every major.minor.patch up to MaxPart.
ComparedVersions == [1..3 -> 0..MaxPart] \cup RemoteVersions \cup {VERSION}

InitCompare ==
    /\ Idle
    /\ probe \in [op : {"versions"}, a : ComparedVersions,
                  b : ComparedVersions, c : ComparedVersions]

CompareVersions ==
    /\ probe.op = "versions"
    /\ probe' = [op |-> "compared", a |-> probe.a, b |-> probe.b, c |-> probe.c,
                 aa |-> semver_compare(probe.a, probe.a),
                 ab |-> semver_compare(probe.a, probe.b),
                 ba |-> semver_compare(probe.b, probe.a),
                 bc |-> semver_compare(probe.b, probe.c),
                 ac |-> semver_compare(probe.a, probe.c),
                 update |-> UpdateAvailable(probe.a)]
    /\ UNCHANGED program

NextCompare == CompareVersions

SpecCompare == InitCompare /\ [][NextCompare]_vars

\* _cleanup_old_backups on any backup directory of up to MaxArchives archives,
\* whatever the order of their mtimes, for any retention count; and rounds of
\* backup and eviction, each by the next version, from an empty directory.
ArchiveNames == {OldVersion(i) : i \in 1..MaxArchives}

BackupDirs ==
    UNION {{[n \in names |-> [tree |-> [p \in Paths |-> 1], mtime |-> order[n]]] :
              order \in {f \in [names -> 1..Cardinality(names)] :
                            \A a, b \in names : a # b => f[a] # f[b]}} :
           names \in SUBSET ArchiveNames}

InitEvict ==
    /\ Idle
    /\ \/ probe \in [op : {"backups"}, dir : BackupDirs, keep : 0..MaxArchives]
       \/ probe = [op |-> "rounds", made |-> 0, dir |-> << >>]

EvictOldBackups ==
    /\ probe.op = "backups"
    /\ probe' = [op |-> "evicted", dir |-> probe.dir, keep |-> probe.keep,
                 out |-> EvictBeyond(probe.dir, probe.keep)]
    /\ UNCHANGED program

\* The version that makes round r (1.0.r) backs itself up and evicts.
BackupAndEvict ==
    /\ probe.op = "rounds"
    /\ probe.made <= MaxArchives
    /\ probe' = [op |-> "rounds", made |-> probe.made + 1,
                 dir |-> cleanup_old_backups(
                            WriteArchive(probe.dir, <<1, 0, probe.made + 1>>,
                                         [p \in Paths |-> 1]))]
    /\ UNCHANGED program

NextEvict == EvictOldBackups \/ BackupAndEvict

SpecEvict == InitEvict /\ [][NextEvict]_vars

\* _apply_update and _rollback called on their own, up to MaxCalls calls in a
\* row, on any installation tree, with any package (or none, or a truncated
\* one) in the temp directory and with a backup directory that is empty or
\* holds one archive of any tree, either under the name _create_backup writes
\* or under the name _rollback reads.
AllTrees == [Paths -> {0, 1, 2}]

TestPackage == <<1, 1, 0>>

InitExtract ==
    /\ installDir \in AllTrees
    /\ \/ backupDir = << >>
       \/ \E n \in {get_backup_path, with_suffix(get_backup_path)}, a \in AllTrees :
            backupDir = Put(<< >>, n, [tree |-> a, mtime |-> 1])
    /\ \/ tempDir = << >>
       \/ \E a \in Packages \cup {Truncated} : tempDir = Put(<< >>, TestPackage, a)
    /\ restart_callback = "none"
    /\ pc = [t \in Threads |-> IF t = 1 THEN "sleep" ELSE "unstarted"]
    /\ update_info = [t \in Threads |-> NoInfo]
    /\ update_file = [t \in Threads |-> NoFile]
    /\ cyc = [t \in Threads |-> NoCycle]
    /\ applied = FALSE
    /\ afterApplied = FALSE
    /\ appliedVersions = {}
    /\ probe = [op |-> "idle", calls |-> 0, before |-> installDir,
                prev |-> "idle", prevRan |-> FALSE]

\* The call before this one ran to its end: the apply extracted every entry,
\* the rollback restored every entry or found no backup.
RanToEnd ==
    \/ probe.op = "apply" /\ cyc[1].failed = "none"
    \/ probe.op = "rollback" /\ cyc[1].rolledBack \in {"RolledBack", "NoBackup"}

Call(op, at) ==
    /\ pc[1] = "sleep"
    /\ probe.calls < MaxCalls
    /\ probe' = [op |-> op, calls |-> probe.calls + 1, before |-> installDir,
                 prev |-> probe.op, prevRan |-> RanToEnd]
    /\ pc' = [pc EXCEPT ![1] = at]
    /\ cyc' = [cyc EXCEPT ![1] = NewCycle(installDir, backupDir)]
    /\ UNCHANGED <<installDir, backupDir, tempDir, restart_callback,
                   update_info, applied, afterApplied,
                   appliedVersions>>

\* self._apply_update(update_file)
CallApply == Call("apply", "apply") /\ update_file' = [update_file EXCEPT ![1] = TestPackage]

\* self._rollback()
CallRollback == Call("rollback", "rollback") /\ UNCHANGED update_file

\* _apply_update has returned to its caller.
ReturnFromApply ==
    /\ probe.op = "apply"
    /\ pc[1] \in {"cleanup", "rollback"}
    /\ pc' = [pc EXCEPT ![1] = "sleep"]
    /\ UNCHANGED <<installDir, backupDir, tempDir, restart_callback,
                   update_info, update_file, cyc, applied, afterApplied,
                   appliedVersions, probe>>

NextExtract ==
    \/ CallApply
    \/ CallRollback
    \/ apply_update(1)
    \/ probe.op = "rollback" /\ rollback(1)
    \/ ReturnFromApply

SpecExtract == InitExtract /\ [][NextExtract]_vars

\* ------------------------------------------------------------ the claims
Stages == {"Downloading", "Verifying", "BackingUp", "Applying"}

\* The cycle of thread t has reported its outcome: _perform_update_with_info
\* or _check_and_update has returned.
Reported(t) == pc[t] \in {"sleep", "restart", "exited"}

\* rollback was attempted and ran: the cycle went through RollingBack and
\* ended in RolledBack or RollbackFailed.
RolledBackOrFailed(t) == cyc[t].rolledBack \in {"RolledBack", "RollbackFailed"}

\* A cycle of thread t is in flight: past the version check, outcome not yet
\* handed to the loop.
InFlight(t) ==
    pc[t] \in {"download", "backup", "apply", "rollback", "cleanup", "restart"}

\* C1 as stated: whichever of the stages Downloading, Verifying, BackingUp,
\* Applying fails, the cycle has gone through a rollback (RolledBack or
\* RollbackFailed) by the time it reports its outcome.
C1_RollbackAfterAnyStageFailure ==
    \A t \in Threads :
        Reported(t) /\ cyc[t].failed \in Stages => RolledBackOrFailed(t)

\* C1, amended: a failure of Applying is followed by a rollback attempt before
\* the cycle reports its outcome (_rollback is called, and ends RolledBack,
\* RollbackFailed or with no backup found); a failure of Downloading, Verifying
\* or BackingUp is reported with no rollback attempted.
C1_RollbackAfterApplyFailureOnly ==
    \A t \in Threads :
        Reported(t) =>
            /\ cyc[t].failed = "Applying" => cyc[t].rolledBack # "none"
            /\ cyc[t].failed \in {"Downloading", "Verifying", "BackingUp"}
                  => cyc[t].rolledBack = "none"

C1_Witness ==
    \E t \in Threads :
        /\ Reported(t)
        /\ cyc[t].failed = "Applying"
        /\ cyc[t].backedUp
        /\ cyc[t].rolledBack = "NoBackup"

\* C2 as stated: a stage that fails while a backup archive of the running
\* version exists is followed by a rollback attempt before Failed is reported;
\* a stage that fails while none exists is reported with no rollback attempt.
C2_RollbackWheneverBackupExists ==
    \A t \in Threads :
        Reported(t) /\ cyc[t].failed \in Stages =>
            IF cyc[t].hadBackup
            THEN cyc[t].rolledBack # "none"
            ELSE cyc[t].rolledBack = "none"

\* C2, amended: rollback is attempted exactly when Applying fails, which
\* happens only after createBackup succeeded in the cycle, so that the backup
\* archive exists; a failure of Downloading, Verifying or BackingUp is
\* reported with no rollback attempt, whether or not an archive of the running
\* version exists; a stage that fails while no archive exists is never
\* followed by a rollback attempt.
C2_RollbackOnlyAfterBackupOfThisCycle ==
    \A t \in Threads :
        Reported(t) /\ cyc[t].failed \in Stages =>
            /\ cyc[t].rolledBack # "none" <=> cyc[t].failed = "Applying"
            /\ cyc[t].failed = "Applying" => cyc[t].backedUp /\ cyc[t].hadBackup
            /\ ~cyc[t].hadBackup => cyc[t].rolledBack = "none"

C2_Witness ==
    \E t \in Threads :
        /\ Reported(t)
        /\ cyc[t].failed = "Downloading"
        /\ cyc[t].hadBackup
        /\ cyc[t].rolledBack = "none"

\* C3: apply runs on the installation directory only after, in the same
\* cycle, the package was downloaded, passed verification and createBackup
\* succeeded; and a cycle whose createBackup fails ends with the installation
\* directory as the cycle found it and apply never invoked.
C3_ApplyOnlyAfterVerifiedDownloadAndBackup ==
    \A t \in Threads :
        /\ cyc[t].applyCalled =>
              cyc[t].downloaded /\ cyc[t].verified /\ cyc[t].backedUp
        /\ Reported(t) /\ cyc[t].failed = "BackingUp" =>
              installDir = cyc[t].pre /\ ~cyc[t].applyCalled

\* The digest of the bytes that arrived is not the manifest's checksum (hex
\* digits compared, whatever their case), with verification enabled.
DigestDiffers(t) ==
    /\ VERIFY_CHECKSUMS
    /\ cyc[t].downloaded
    /\ cyc[t].expected # NoChecksum
    /\ cyc[t].got[1] # cyc[t].expected[1]

\* C4: with checksum verification enabled, when the digest of the downloaded
\* bytes differs from the manifest checksum, the fetch fails with
\* ChecksumError, the downloaded file is gone from the temp directory, no
\* backup is created, apply is not invoked and the installation directory is
\* as the cycle found it.
C4_ChecksumMismatchDiscardsDownload ==
    \A t \in Threads :
        DigestDiffers(t) =>
            /\ Reported(t)
            /\ cyc[t].outcome = "Failed"
            /\ cyc[t].reason = "ChecksumError"
            /\ cyc[t].name \notin DOMAIN tempDir
            /\ ~cyc[t].backedUp
            /\ backupDir = cyc[t].preBackups
            /\ ~cyc[t].applyCalled
            /\ installDir = cyc[t].pre

C4_Witness ==
    \E t \in Threads :
        DigestDiffers(t) /\ cyc[t].reason = "ChecksumError" /\ pc[t] = "sleep"

\* C5: a cycle that receives a manifest lacking `version` or lacking
\* `checksum` creates no backup and invokes no apply.
C5_UnusableManifestNeverApplied ==
    \A t \in Threads :
        \/ cyc[t].reason = "ManifestError"
        \/ cyc[t].started /\ cyc[t].expected = NoChecksum
        => ~cyc[t].backedUp /\ ~cyc[t].applyCalled

\* C6: when a cycle that created a file in the temp directory has reported
\* its outcome, whatever the outcome, that file is no longer there.
C6_PackageGoneAtOutcome ==
    \A t \in Threads :
        Reported(t) /\ cyc[t].created => cyc[t].name \notin DOMAIN tempDir

C8_AtMostMaxBackupsAtOutcome ==
    \A t \in Threads :
        Reported(t) => Cardinality(DOMAIN backupDir) <= MAX_BACKUP_COUNT

\* C9: after a cycle has ended Applied the scheduler starts no further cycle,
\* whether the restart hook returns, or none was supplied.
C9_NoCycleAfterApplied == ~afterApplied

\* C10: at most one update cycle is in flight at any time, for any sequence
\* of calls of start_periodic_checking on the same updater.
C10_OneCycleInFlight == Cardinality({t \in Threads : InFlight(t)}) <= 1

\* The cycle of thread t has ended and the scheduler is to go on: it ended
\* NoUpdateAvailable or Failed, whatever the failure, or the restart hook it
\* called raised.
ToContinue(t) ==
    \/ cyc[t].outcome \in {"NoUpdateAvailable", "Failed"}
    \/ cyc[t].outcome = "Applied" /\ cyc[t].hook /\ restart_callback = "raises"

\* C11: no failure in a cycle stops the scheduler: after every cycle that ends
\* NoUpdateAvailable or Failed (network error, malformed manifest, invalid
\* version, checksum mismatch, backup error, extraction error, failed
\* rollback), or whose restart hook raised, a next cycle eventually starts.
C11_NextCycleAfterFailure ==
    \A t \in Threads : ToContinue(t) ~> (pc[t] = "check" /\ cyc[t].after # "none")

C11_Witness ==
    \E t \in Threads : pc[t] = "check" /\ cyc[t].after = "Failed"

\* C12: a cycle whose remote version equals the running version mutates no
\* file: it starts no update, writes no file to the temp directory, creates no
\* backup, applies nothing, and the installation directory and the backup
\* directory are as the cycle found them; it ends NoUpdateAvailable.
C12_EqualVersionTouchesNothing ==
    \A t \in Threads :
        cyc[t].remote = VERSION =>
            /\ ~cyc[t].started /\ ~cyc[t].created
            /\ ~cyc[t].backedUp /\ ~cyc[t].applyCalled
            /\ installDir = cyc[t].pre
            /\ backupDir = cyc[t].preBackups
            /\ Reported(t) /\ cyc[t].outcome = "NoUpdateAvailable"

C12_Witness ==
    \E t \in Threads :
        /\ pc[t] = "sleep"
        /\ cyc[t].remote = VERSION
        /\ cyc[t].outcome = "NoUpdateAvailable"

\* C13: a cycle whose manifest fetch fails, or whose manifest has no version,
\* ends there with nothing changed: no download, no backup, no apply, no
\* rollback, no call of the restart hook, and the installation directory and
\* the backup directory as the cycle found them.
C13_NoManifestNoChange ==
    \A t \in Threads :
        cyc[t].reason \in {"NetworkError", "ManifestError"} =>
            /\ Reported(t) /\ cyc[t].outcome = "Failed"
            /\ ~cyc[t].started /\ ~cyc[t].created /\ ~cyc[t].downloaded
            /\ ~cyc[t].backedUp /\ ~cyc[t].applyCalled
            /\ cyc[t].rolledBack = "none"
            /\ ~cyc[t].hook
            /\ installDir = cyc[t].pre
            /\ backupDir = cyc[t].preBackups

C13_Witness ==
    \E t \in Threads :
        /\ pc[t] = "sleep"
        /\ cyc[t].reason = "ManifestError"
        /\ cyc[t].remote = NoVersion

Running(t) ==
    pc[t] \in {"check", "download", "backup", "apply", "rollback", "cleanup"}

Outcomes == {"NoUpdateAvailable", "Applied", "Failed"}

\* C16: every cycle that starts eventually reaches a terminal outcome
\* (NoUpdateAvailable, Applied, or Failed with or without a rollback), given
\* that each network call and file operation returns; it has one outcome, which
\* stays as it is until the next cycle starts; a cycle that has returned to the
\* scheduler has an outcome, so none is left in an intermediate stage.
C16_EveryCycleReachesOneOutcome ==
    /\ \A t \in Threads :
          Running(t) ~> (Reported(t) /\ cyc[t].outcome \in Outcomes)
    /\ [][\A t \in Threads :
            cyc[t].outcome # "none" =>
                \/ cyc'[t].outcome = cyc[t].outcome
                \/ pc[t] = "sleep" /\ pc'[t] = "check"]_vars
    /\ [](\A t \in Threads :
            /\ pc[t] \in {"sleep", "restart"} => cyc[t].outcome \in Outcomes
            /\ Running(t) => cyc[t].outcome = "none")

C16_Witness ==
    \E t \in Threads :
        /\ pc[t] = "sleep"
        /\ cyc[t].outcome = "Applied"
        /\ cyc[t].downloaded /\ cyc[t].backedUp /\ cyc[t].applyCalled

\* a is the later version by numeric precedence: major first, then minor,
\* then patch.
Later(a, b) ==
    \/ a[1] > b[1]
    \/ a[1] = b[1] /\ a[2] > b[2]
    \/ a[1] = b[1] /\ a[2] = b[2] /\ a[3] > b[3]

\* C17: on valid versions major.minor.patch, compare is a strict total order
\* by numeric precedence of major, then minor, then patch: compare(a, a) is
\* EQUAL, compare(a, b) is EQUAL only for a = b, GREATER exactly when a is the
\* later version, LESS exactly when b is, hence antisymmetric and transitive;
\* and an update is started exactly when compare(remote, current) is GREATER.
C17_CompareIsNumericTotalOrder ==
    probe.op = "compared" =>
        /\ probe.aa = 0
        /\ probe.ab \in {-1, 0, 1}
        /\ probe.ab = 0 <=> probe.a = probe.b
        /\ probe.ab = 1 <=> Later(probe.a, probe.b)
        /\ probe.ab = -1 <=> Later(probe.b, probe.a)
        /\ probe.ab = -probe.ba
        /\ probe.ab = 1 /\ probe.bc = 1 => probe.ac = 1
        /\ probe.update <=> Later(probe.a, VERSION)

C17_Witness ==
    /\ probe.op = "compared"
    /\ probe.a[1] = probe.b[1] /\ probe.a[2] = probe.b[2]
    /\ probe.ab = 1 /\ probe.bc = 1 /\ probe.ac = 1
    /\ probe.update

\* The `keep` archives of dir with the latest mtimes (all, when there are
\* fewer).
Latest(dir, keep) ==
    {a \in DOMAIN dir :
        Cardinality({b \in DOMAIN dir : dir[b].mtime > dir[a].mtime}) < keep}

\* C18: for every backup directory whose archives have distinct mtimes and
\* every retention count N, the eviction deletes exactly the archives that are
\* not among the N with the latest mtimes, whatever versions they are of, and
\* leaves those N as they were: same contents, same order in time; and after
\* more than MAX_BACKUP_COUNT rounds of backup and eviction exactly
\* MAX_BACKUP_COUNT archives remain, the most recently created.
C18_EvictionKeepsTheLatest ==
    /\ probe.op = "evicted" =>
          /\ DOMAIN probe.out = Latest(probe.dir, probe.keep)
          /\ \A a \in DOMAIN probe.out :
                /\ probe.out[a].tree = probe.dir[a].tree
                /\ \A b \in DOMAIN probe.out :
                      probe.out[a].mtime < probe.out[b].mtime
                          <=> probe.dir[a].mtime < probe.dir[b].mtime
    /\ probe.op = "rounds" /\ probe.made > MAX_BACKUP_COUNT =>
          /\ Cardinality(DOMAIN probe.dir) = MAX_BACKUP_COUNT
          /\ DOMAIN probe.dir =
                {<<1, 0, r>> : r \in (probe.made - MAX_BACKUP_COUNT + 1)..probe.made}

C18_Witness ==
    /\ probe.op = "evicted"
    /\ probe.keep = MAX_BACKUP_COUNT
    /\ Cardinality(DOMAIN probe.dir) > MAX_BACKUP_COUNT
    /\ probe.dir[OldVersion(1)].mtime = 1
    /\ OldVersion(1) \notin DOMAIN probe.out

\* C19: rollback is idempotent: for every installation tree and every backup
\* archive, a rollback made right after a rollback that ran to its end leaves
\* the installation tree as that first rollback left it.
C19_RollbackIdempotent ==
    /\ probe.op = "rollback"
    /\ probe.prev = "rollback" /\ probe.prevRan
    /\ pc[1] = "sleep"
    => installDir = probe.before

C19_Witness ==
    /\ probe.op = "rollback" /\ probe.prev = "rollback" /\ probe.prevRan
    /\ pc[1] = "sleep"
    /\ cyc[1].rolledBack = "RolledBack"
    /\ \E p \in Paths :
          /\ backupDir[with_suffix(get_backup_path)].tree[p] = 2
          /\ installDir[p] = 2

\* The archive the call under test extracts: the package for _apply_update,
\* the file at _rollback's backup path for _rollback; no entries when the file
\* is not there.
Extracted ==
    IF probe.op = "apply"
    THEN (IF TestPackage \in DOMAIN tempDir THEN tempDir[TestPackage] ELSE NoTree)
    ELSE (IF with_suffix(get_backup_path) \in DOMAIN backupDir
          THEN backupDir[with_suffix(get_backup_path)].tree
          ELSE NoTree)

\* The call under test has returned, and succeeded.
Returned ==
    \/ probe.op = "apply" /\ pc[1] \in {"cleanup", "rollback"}
    \/ probe.op = "rollback" /\ pc[1] = "sleep" /\ cyc[1].rolledBack # "none"

Succeeded ==
    \/ probe.op = "apply" /\ pc[1] = "cleanup"
    \/ probe.op = "rollback" /\ pc[1] = "sleep" /\ cyc[1].rolledBack = "RolledBack"

\* C20: apply, and the extraction of rollback, leave every file of the
\* installation directory whose path is no entry of the archive as it was
\* (present, same content), whether the extraction succeeds or fails; after a
\* successful one every entry's path holds the archive's content.
C20_ExtractionLeavesOtherFiles ==
    /\ Returned =>
          \A p \in Paths \ Entries(Extracted) : installDir[p] = probe.before[p]
    /\ Succeeded =>
          \A p \in Entries(Extracted) : installDir[p] = Extracted[p]

C20_Witness ==
    /\ probe.op = "apply" /\ pc[1] = "cleanup"
    /\ \E p, q \in Paths :
          /\ p \notin Entries(Extracted) /\ installDir[p] = 1
          /\ q \in Entries(Extracted) /\ probe.before[q] = 1 /\ installDir[q] = 2

\* C21: a running instance applies the package of a given remote version at
\* most once: a cycle whose manifest carries a version that an earlier cycle
\* of the same instance ended Applied with creates no temp file, downloads
\* nothing, makes no backup and does not call _apply_update.
C21_VersionAppliedAtMostOnce ==
    \A t \in Threads :
        cyc[t].again =>
            /\ ~cyc[t].created
            /\ ~cyc[t].downloaded
            /\ ~cyc[t].backedUp
            /\ ~cyc[t].applyCalled

====
